---- MODULE Spec2Model ----
(***************************************************************************)
(* Model of the TreeMix-Workflow tree comparison code:                     *)
(*   src/src/treemix_tests/analysis/find_differences.py  (TreeComparator)  *)
(*   src/src/treemix_tests/analysis/batch_compare.py                       *)
(*     (compare_experiment_to_baseline)                                    *)
(*                                                                         *)
(* Specifications.                                                         *)
(*   Spec          a TreeComparator on a loaded tree pair; compare_trees.  *)
(*   SpecSiblings  the static method _get_sibling_taxa called on its own.  *)
(*   SpecZ         the static method _compute_z_score called on its own.   *)
(*   SpecBatch     compare_experiment_to_baseline over a directory.        *)
(*                                                                         *)
(* Representation of values.                                               *)
(*  - A dendropy Tree whose leaves carry distinct taxon labels is the      *)
(*    family of its clades (leaf-label sets, one per node) with the branch *)
(*    length of the edge above each node: a function clade -> length.  For *)
(*    a rooted tree this family is exactly dendropy's bipartition encoding *)
(*    (one rooted bipartition = one leafset bitmask per edge, the leaf     *)
(*    edges and the root edge included).  The root edge has length 0       *)
(*    (Newick gives it none; dendropy reads a missing root length as 0).   *)
(*  - A Python float that is a quotient is the exact fraction              *)
(*    [num, den]; a square root is kept as its radicand (bsd_sq, std_sq),  *)
(*    so sqrt(x)/d <= 1 is x <= d*d.  numpy's nan is the fraction 0/0.     *)
(*  - A raised exception is [exc |-> name]; a normal return is             *)
(*    [exc |-> "none", val |-> v].                                         *)
(*  - The iteration order of a Python set depends on the hash seed of the  *)
(*    process and on the table and the history of that set object: two     *)
(*    lists made from sets in one run need not agree, not even list(s) and *)
(*    list(s - t).  Every such list can come out in every order.  In the   *)
(*    results of a comparison such a list is kept up to its order, as the  *)
(*    bag of its entries (UnorderedList).  Where the order is the subject, *)
(*    in a call of _compute_z_score on its own, it is the variable         *)
(*    key_set_order, drawn from all orders.                                *)
(***************************************************************************)
EXTENDS Integers, Sequences, FiniteSets, TLC

\* ------------------------------------------------------------------ bounds
\* Largest branch-length scale of an input tree.
MaxScale == 1
\* Largest distance in a mapping handed to _compute_z_score.
MaxDist == 1
\* Most experiment files in the treemix_output directory of a batch.
MaxFiles == 2
\* Most shared taxa _normalized_rf and _normalize_bsd are called with.
MaxShared == 4
\* Most rows of a population list handed to reduce_population_counts.
MaxRows == 3
\* Largest max_per_population.
MaxPerPopulation == 2
\* Most individuals, SNPs and populations of a .ped file handed to
\* create_snpsplit_hybrids_aligned.
MaxInds == 4
MaxSnps == 6
MaxPops == 3
\* Most lines in the piece of a file the migration extractor reads.
MaxLines == 2

\* ------------------------------------------------------------- basic values
LabelSeq == <<"A", "B", "C", "D">>
Labels == {LabelSeq[i] : i \in 1..Len(LabelSeq)}

\* Position of a label in Python's str order (sorted()).
Rank(l) == CHOOSE i \in 1..Len(LabelSeq) : LabelSeq[i] = l

Rat(n, d) == [num |-> n, den |-> d]
RatIsOne(q) == q.num = q.den
RatInUnit(q) == q.den > 0 /\ 0 <= q.num /\ q.num <= q.den

Raise(e) == [exc |-> e]
Ok(v) == [exc |-> "none", val |-> v]
Raised(r) == r.exc # "none"

EmptyDict == [k \in {} |-> 0]
Put(d, k, v) == [x \in (DOMAIN d) \cup {k} |-> IF x = k THEN v ELSE d[x]]

RECURSIVE SumFn(_)
SumFn(f) ==
  IF DOMAIN f = {} THEN 0
  ELSE LET x == CHOOSE y \in DOMAIN f : TRUE
       IN f[x] + SumFn([y \in (DOMAIN f) \ {x} |-> f[y]])

\* All orders in which a set of labels can be iterated.
Permutations4 ==
  {p \in [1..Len(LabelSeq) -> Labels] : \A l \in Labels : \E i \in DOMAIN p : p[i] = l}

\* list(S) / for x in S: the members of S in the order the set is iterated
\* in, given as an order of a superset of S.
Iterate(S, order) == SelectSeq(order, LAMBDA x : x \in S)

\* A list up to the order of its entries: entry -> number of occurrences.
UnorderedList(q) ==
  [e \in {q[i] : i \in DOMAIN q} |-> Cardinality({i \in DOMAIN q : q[i] = e})]

RECURSIVE ListOfSet(_)
\* list(S) in one of the orders it can have.
ListOfSet(S) ==
  IF S = {} THEN <<>>
  ELSE LET x == CHOOSE y \in S : TRUE IN <<x>> \o ListOfSet(S \ {x})

\* ------------------------------------------------------------------- trees
Laminar(F) == \A c, d \in F : c \cap d = {} \/ c \subseteq d \/ d \subseteq c

\* Every rooted topology with leaf set S: the root, the leaves and a laminar
\* family of inner clades.
Hier(S) ==
  LET inner == {c \in SUBSET S : Cardinality(c) >= 2 /\ c # S}
  IN {G \cup {S} \cup {{x} : x \in S} : G \in {H \in SUBSET inner : Laminar(H)}}

Topologies == UNION {Hier(S) : S \in (SUBSET Labels) \ {{}}}

\* The tree of topology F whose edge above clade c has length s*|c| (root: 0).
MkTree(F, s) == [c \in F |-> IF c = UNION F THEN 0 ELSE s * Cardinality(c)]

Trees == {MkTree(F, s) : F \in Topologies, s \in 0..MaxScale}

\* One topology of each shape (the others are these with the labels renamed):
\* A; (A,B); (A,B,C); ((A,B),C); (A,B,C,D); ((A,B),C,D); ((A,B,C),D);
\* ((A,B),(C,D)); (((A,B),C),D).
Shape(S, inner) == inner \cup {S} \cup {{x} : x \in S}

ShapeTopologies ==
  {Shape({"A"}, {}),
   Shape({"A", "B"}, {}),
   Shape({"A", "B", "C"}, {}),
   Shape({"A", "B", "C"}, {{"A", "B"}}),
   Shape(Labels, {}),
   Shape(Labels, {{"A", "B"}}),
   Shape(Labels, {{"A", "B", "C"}}),
   Shape(Labels, {{"A", "B"}, {"C", "D"}}),
   Shape(Labels, {{"A", "B"}, {"A", "B", "C"}})}

BaselineTrees == {MkTree(F, s) : F \in ShapeTopologies, s \in 0..MaxScale}

NoNode == {}

\* set(leaf.taxon.label for leaf in tree.leaf_nodes())
leaf_labels(t) == UNION (DOMAIN t)

\* dendropy Tree.find_node_with_taxon_label: the leaf's clade, or None.
find_node_with_taxon_label(t, l) == IF {l} \in DOMAIN t THEN {l} ELSE NoNode

\* dendropy Node.parent_node: the smallest clade strictly above c, or None.
parent_node(t, c) ==
  LET above == {d \in DOMAIN t : c \subseteq d /\ c # d}
  IN IF above = {} THEN NoNode
     ELSE CHOOSE d \in above : \A e \in above : d \subseteq e

\* dendropy Node.distance_from_root: the lengths of the edges from the node up
\* to and including the root edge.
distance_from_root(t, c) ==
  SumFn([d \in {e \in DOMAIN t : c \subseteq e} |-> t[d]])

\* dendropy Tree.mrca(taxon_labels=[a, b])
mrca(t, a, b) ==
  LET both == {d \in DOMAIN t : a \in d /\ b \in d}
  IN IF both = {} THEN NoNode
     ELSE CHOOSE d \in both : \A e \in both : d \subseteq e

\* extract_tree_with_taxa_labels that removes no leaf.
extract_tree_with_taxa_labels_keeps_all(t, labels) == t

\* dendropy Tree.extract_tree_with_taxa_labels: a new tree restricted to the
\* given labels; a node left with one child is merged into that child, the
\* lengths summed.
extract_tree_with_taxa_labels(t, labels) ==
  LET kept == {c \cap labels : c \in DOMAIN t} \ {{}}
  IN [d \in kept |-> SumFn([c \in {e \in DOMAIN t : e \cap labels = d} |-> t[c]])]

\* dendropy treecompare.symmetric_difference on rooted trees: bipartitions of
\* either tree that the other lacks.
symmetric_difference(t1, t2) ==
  Cardinality((DOMAIN t1) \ (DOMAIN t2)) + Cardinality((DOMAIN t2) \ (DOMAIN t1))

edge_length(t, c) == IF c \in DOMAIN t THEN t[c] ELSE 0

\* euclidean_distance_sq over the bipartitions of the first tree only.
euclidean_distance_sq_first_tree_only(t1, t2) ==
  SumFn([c \in DOMAIN t1 |->
           (edge_length(t1, c) - edge_length(t2, c)) * (edge_length(t1, c) - edge_length(t2, c))])

\* dendropy treecompare.euclidean_distance, squared: over the bipartitions of
\* either tree, length 0 where one tree lacks the bipartition.
euclidean_distance_sq(t1, t2) ==
  SumFn([c \in (DOMAIN t1) \cup (DOMAIN t2) |->
           (edge_length(t1, c) - edge_length(t2, c)) * (edge_length(t1, c) - edge_length(t2, c))])

\* --------------------------------------------------------- TreeComparator
\* The (a, b) keys a pairwise mapping can have.
PairKeys == {<<a, b>> : a \in Labels, b \in Labels}

\* _normalized_rf with the unrooted maximum used for rooted trees too.
_normalized_rf_unrooted_max(pruned_rf, shared_taxa, rooted) ==
  IF shared_taxa < 3 THEN Raise("ValueError")
  ELSE LET max_rf == 2 * (shared_taxa - 3)
       IN IF max_rf <= 0 THEN Ok(Rat(0, 1)) ELSE Ok(Rat(pruned_rf, max_rf))

_normalized_rf(pruned_rf, shared_taxa, rooted) ==
  IF shared_taxa < 3 THEN Raise("ValueError")
  ELSE LET max_rf == IF rooted THEN 2 * (shared_taxa - 2) ELSE 2 * (shared_taxa - 3)
       IN IF max_rf <= 0 THEN Ok(Rat(0, 1)) ELSE Ok(Rat(pruned_rf, max_rf))

\* bsd / branches with bsd = sqrt(bsd_sq): [sq_num |-> bsd_sq, den |-> branches].
\* _normalize_bsd with the branch count of a rooted tree in both cases.
_normalize_bsd_rooted_count(bsd_sq, shared_taxa, rooted) ==
  IF shared_taxa < 3 THEN [sq_num |-> 0, den |-> 1]
  ELSE [sq_num |-> bsd_sq, den |-> 2 * shared_taxa - 2]

_normalize_bsd(bsd_sq, shared_taxa, rooted) ==
  IF shared_taxa < 3 THEN [sq_num |-> 0, den |-> 1]
  ELSE LET branches == IF rooted THEN 2 * shared_taxa - 2 ELSE 2 * shared_taxa - 3
       IN [sq_num |-> bsd_sq, den |-> branches]

_calculate_distances(t1, t2) ==
  LET labels1 == leaf_labels(t1)
      labels2 == leaf_labels(t2)
      intersection == labels1 \cap labels2
      union == labels1 \cup labels2
      rf_distance == symmetric_difference(t1, t2)
      bsd_sq == euclidean_distance_sq(t1, t2)
      nrf == _normalized_rf(rf_distance, Cardinality(intersection), TRUE)
  IN IF Raised(nrf) THEN nrf
     ELSE Ok([jaccard_index |-> Rat(Cardinality(intersection), Cardinality(union)),
              same_taxa |-> (labels1 = labels2),
              rf_distance |-> rf_distance,
              normalized_rf |-> nrf.val,
              bsd_sq |-> bsd_sq,
              normalized_bsd |-> _normalize_bsd(bsd_sq, Cardinality(intersection), TRUE),
              taxa_info |-> [tree1_taxa_count |-> Cardinality(labels1),
                             tree2_taxa_count |-> Cardinality(labels2),
                             common_taxa_count |-> Cardinality(intersection),
                             total_unique_taxa |-> Cardinality(union)]])

\* _get_sibling_taxa without the filter on the queried label.
_get_sibling_taxa_unfiltered(t, taxon_label) ==
  LET node == find_node_with_taxon_label(t, taxon_label)
  IN IF node = NoNode \/ parent_node(t, node) = NoNode THEN {}
     ELSE parent_node(t, node)

_get_sibling_taxa(t, taxon_label) ==
  LET node == find_node_with_taxon_label(t, taxon_label)
  IN IF node = NoNode \/ parent_node(t, node) = NoNode THEN {}
     ELSE {l \in parent_node(t, node) : l # taxon_label}

NoneResult == [is_none |-> TRUE]

\* _compare_single_taxon with the two difference lists exchanged.
_compare_single_taxon_swapped(t1, t2, pop) ==
  LET siblings1 == _get_sibling_taxa(t1, pop)
      siblings2 == _get_sibling_taxa(t2, pop)
      intersection == siblings1 \cap siblings2
      union == siblings1 \cup siblings2
      jaccard_index == IF union # {} THEN Rat(Cardinality(intersection), Cardinality(union))
                       ELSE Rat(0, 1)
  IN IF RatIsOne(jaccard_index) THEN NoneResult
     ELSE [is_none |-> FALSE,
           siblings1 |-> UnorderedList(ListOfSet(siblings1)),
           siblings2 |-> UnorderedList(ListOfSet(siblings2)),
           jaccard_index |-> jaccard_index,
           differences |-> [only_in_tree1 |-> UnorderedList(ListOfSet(siblings2 \ siblings1)),
                            only_in_tree2 |-> UnorderedList(ListOfSet(siblings1 \ siblings2))]]

_compare_single_taxon(t1, t2, pop) ==
  LET siblings1 == _get_sibling_taxa(t1, pop)
      siblings2 == _get_sibling_taxa(t2, pop)
      intersection == siblings1 \cap siblings2
      union == siblings1 \cup siblings2
      jaccard_index == IF union # {} THEN Rat(Cardinality(intersection), Cardinality(union))
                       ELSE Rat(0, 1)
  IN IF RatIsOne(jaccard_index) THEN NoneResult
     ELSE [is_none |-> FALSE,
           siblings1 |-> UnorderedList(ListOfSet(siblings1)),
           siblings2 |-> UnorderedList(ListOfSet(siblings2)),
           jaccard_index |-> jaccard_index,
           differences |-> [only_in_tree1 |-> UnorderedList(ListOfSet(siblings1 \ siblings2)),
                            only_in_tree2 |-> UnorderedList(ListOfSet(siblings2 \ siblings1))]]

\* different_populations is appended to while the set common_taxa is iterated.
_compare_siblings(t1, t2, common_taxa) ==
  LET different == {pop \in common_taxa : ~_compare_single_taxon(t1, t2, pop).is_none}
  IN [different_populations |-> UnorderedList(ListOfSet(different)),
      comparisons |-> [pop \in different |-> _compare_single_taxon(t1, t2, pop)]]

_taxon_distances(t) == [l \in leaf_labels(t) |-> distance_from_root(t, {l})]

\* _pairwise_distances with the distance of the MRCA subtracted once.
_pairwise_distances_single_mrca(t, taxa) ==
  LET present == {p \in PairKeys : /\ p[1] \in taxa /\ p[2] \in taxa
                                   /\ Rank(p[1]) < Rank(p[2])
                                   /\ find_node_with_taxon_label(t, p[1]) # NoNode
                                   /\ find_node_with_taxon_label(t, p[2]) # NoNode
                                   /\ mrca(t, p[1], p[2]) # NoNode}
  IN [p \in present |-> distance_from_root(t, {p[1]}) + distance_from_root(t, {p[2]})
                        - distance_from_root(t, mrca(t, p[1], p[2]))]

_pairwise_distances(t, taxa) ==
  LET present == {p \in PairKeys : /\ p[1] \in taxa /\ p[2] \in taxa
                                   /\ Rank(p[1]) < Rank(p[2])
                                   /\ find_node_with_taxon_label(t, p[1]) # NoNode
                                   /\ find_node_with_taxon_label(t, p[2]) # NoNode
                                   /\ mrca(t, p[1], p[2]) # NoNode}
  IN [p \in present |-> distance_from_root(t, {p[1]}) + distance_from_root(t, {p[2]})
                        - 2 * distance_from_root(t, mrca(t, p[1], p[2]))]

\* z = (delta - mean) / std with mean = total/n and std = sqrt(var_num)/n is
\* (n*delta - total) / sqrt(var_num): [num, sq_den].  The literal 0 is ZeroZ.
ZeroZ == [num |-> 0, sq_den |-> 1]

\* np.mean([]) and np.std([]) are nan: Rat(0, 0) and [sq_num |-> 0, den |-> 0].
_compute_z_score(dist1, dist2, key_order) ==
  LET common_keys == Iterate((DOMAIN dist1) \cap (DOMAIN dist2), key_order)
      n == Len(common_keys)
      deltas == [i \in 1..n |-> dist1[common_keys[i]] - dist2[common_keys[i]]]
      total == SumFn(deltas)
      sumsq == SumFn([i \in 1..n |-> deltas[i] * deltas[i]])
      var_num == n * sumsq - total * total
      std_not_zero == n = 0 \/ var_num # 0
  IN [mean_delta |-> Rat(total, n),
      std_delta |-> [sq_num |-> var_num, den |-> n],
      differences |-> [i \in 1..n |->
                         <<common_keys[i], deltas[i],
                           IF std_not_zero THEN [num |-> n * deltas[i] - total, sq_den |-> var_num]
                           ELSE ZeroZ>>]]

\* _compute_z_score(dist1, dist2) with its differences list up to the order
\* the key set was iterated in; the entries themselves do not depend on it.
z_score_unordered(dist1, dist2) ==
  LET z == _compute_z_score(dist1, dist2, ListOfSet((DOMAIN dist1) \cap (DOMAIN dist2)))
  IN [mean_delta |-> z.mean_delta,
      std_delta |-> z.std_delta,
      differences |-> UnorderedList(z.differences)]

\* _compare_root_distances with the two mappings exchanged.
_compare_root_distances_exchanged(t1, t2) ==
  z_score_unordered(_taxon_distances(t2), _taxon_distances(t1))

_compare_root_distances(t1, t2) ==
  z_score_unordered(_taxon_distances(t1), _taxon_distances(t2))

_compare_pairwise_distances(t1, t2, common_taxa) ==
  z_score_unordered(_pairwise_distances(t1, common_taxa), _pairwise_distances(t2, common_taxa))

\* ------------------------------------------------------------ batch names
\* A file name is a sequence of atoms: the characters that matter to the
\* pattern m_\d+ one by one, every other stretch of characters as one atom.
\* \d of a str pattern matches every Unicode decimal digit (category Nd):
\* the ten ASCII digits and, of the others, ARABIC-INDIC DIGIT THREE and
\* FULLWIDTH DIGIT SIX.
Digits == {"0", "1", "2", "3", "4", "5", "6", "7", "8", "9", "U+0663", "U+FF16"}

IsDigit(a) == a \in Digits

\* The digits of name from position i on, up to the first non-digit.
RECURSIVE digit_run(_, _)
digit_run(name, i) ==
  IF i <= Len(name) /\ IsDigit(name[i]) THEN <<name[i]>> \o digit_run(name, i + 1) ELSE <<>>

\* re.search(r"m_\d+", name): the leftmost match, or <<>> for None.
RECURSIVE re_search_from(_, _)
re_search_from(name, i) ==
  IF i + 2 > Len(name) THEN <<>>
  ELSE IF name[i] = "m" /\ name[i + 1] = "_" /\ IsDigit(name[i + 2])
       THEN <<"m", "_">> \o digit_run(name, i + 2)
       ELSE re_search_from(name, i + 1)

re_search(name) == re_search_from(name, 1)

\* baseline_filename with the pattern m_\d in place of m_\d+.
baseline_filename_one_digit(name) ==
  LET migration_match == re_search(name)
  IN IF migration_match # <<>>
     THEN <<"baseline_">> \o SubSeq(migration_match, 1, 3) \o <<"_output.treeout.gz">>
     ELSE <<"baseline_seed1_output.treeout.gz">>

\* The baseline file name batch_compare pairs with an experiment file name.
baseline_filename(name) ==
  LET migration_match == re_search(name)
  IN IF migration_match # <<>>
     THEN <<"baseline_">> \o migration_match \o <<"_output.treeout.gz">>
     ELSE <<"baseline_seed1_output.treeout.gz">>

\* Path.stem: the name without its last suffix.  A name the glob returns ends
\* with the atom ".treeout.gz", of which ".treeout" stays.
stem(name) ==
  IF name # <<>> /\ name[Len(name)] = ".treeout.gz"
  THEN SubSeq(name, 1, Len(name) - 1) \o <<".treeout">>
  ELSE name

\* experiment_tree_file.stem.replace(".treeout", ""): every ".treeout" of the
\* stem is removed, the one of the ending and any other (an inner ".treeout"
\* is an atom of its own).
output_basename(name) == SelectSeq(stem(name), LAMBDA a : a # ".treeout")

\* Experiment files the glob *.treeout.gz can return.
ExperimentNames ==
  {<<"exp_", "m", "_", "6", "_output", ".treeout.gz">>,
   <<"exp_seed1_output", ".treeout.gz">>,
   <<"exp_", "m", "_", "1", "2", "_output", ".treeout.gz">>,
   <<"m", "_", "x", "m", "_", "3", ".treeout.gz">>,
   <<"per", "m", "_", "6", "_", "m", "_", "1", ".treeout.gz">>,
   <<"exp_", "m", "_", "U+0663", "_output", ".treeout.gz">>,
   <<"exp", ".treeout", "_", "m", "_", "2", ".treeout.gz">>}

BaselineNames == {baseline_filename(n) : n \in ExperimentNames}

\* The lists of distinct experiment files of at most MaxFiles entries, in any
\* order (glob returns directory order).
FileLists ==
  UNION {{f \in [1..k -> ExperimentNames] : \A i, j \in 1..k : i # j => f[i] # f[j]}
           : k \in 0..MaxFiles}

\* ------------------------------------------------------- tree-output files
\* Text is kept as far as the code looks into it.  A field is a run of
\* non-blank characters, written as the sequence of its atoms: a number or a
\* word as one atom, Newick text token by token.  A line is the sequence of
\* its fields (line.strip().split()); a blank line is <<>>.
NumberAtoms == {"0.25", "1"}

\* float(s): the value of a number, ValueError for anything else.
float(field) ==
  IF Len(field) = 1 /\ field[1] \in NumberAtoms
  THEN Ok(IF field[1] = "0.25" THEN Rat(25, 100) ELSE Rat(1, 1))
  ELSE Raise("ValueError")

\* What the token a leaves behind for the token after it.
token_kind(a) == IF a \in Labels THEN "label" ELSE IF a = ":1" THEN "length" ELSE a

\* Whether text[i..] completes a Newick statement that opens with "(", after
\* a token of kind prev at nesting depth.  A leaf may be empty: "(,B)".
RECURSIVE newick_scan(_, _, _, _)
newick_scan(text, i, depth, prev) ==
  IF i > Len(text) THEN depth = 0 /\ prev \in {")", "length"}
  ELSE LET a == text[i]
           next(d) == newick_scan(text, i + 1, d, token_kind(a))
       IN IF a = "(" THEN prev \in {"start", "(", ","} /\ next(depth + 1)
          ELSE IF a \in Labels THEN prev \in {"(", ","} /\ next(depth)
          ELSE IF a = ":1" THEN prev \in {"label", ")"} /\ next(depth)
          ELSE IF a = "," THEN depth >= 1 /\ next(depth)
          ELSE IF a = ")" THEN depth >= 1 /\ next(depth - 1)
          ELSE FALSE

\* leaf.taxon of a leaf without a label
NoTaxon == "None"

\* tree.leaf_nodes() of the parsed text, left to right: the taxon label of
\* each leaf, NoTaxon for an empty leaf.
RECURSIVE leaf_nodes(_, _, _)
leaf_nodes(text, i, prev) ==
  IF i > Len(text) THEN <<>>
  ELSE LET a == text[i]
           here == IF a \in Labels THEN <<a>>
                   ELSE IF a \in {",", ")"} /\ prev \in {"(", ","} THEN <<NoTaxon>>
                   ELSE <<>>
       IN here \o leaf_nodes(text, i + 1, token_kind(a))

\* Tree.get(data=newick + ";", schema="newick") and then
\* [leaf.taxon.label for leaf in tree.leaf_nodes()].
fragment_taxa(newick) ==
  IF ~newick_scan(newick, 1, 0, "start") THEN Raise("NewickReaderError")
  ELSE LET leaves == leaf_nodes(newick, 1, "start")
       IN IF \E i \in DOMAIN leaves : leaves[i] = NoTaxon
          THEN Raise("AttributeError")
          ELSE Ok(leaves)

\* parse_line with the field count test dropped: any line with at least 6
\* fields is parsed.
parse_line_any_count(line) ==
  IF Len(line) < 6 THEN <<>>
  ELSE LET weight == float(line[1])
           source_taxa == fragment_taxa(line[5])
           target_taxa == fragment_taxa(line[6])
       IN IF Raised(weight) \/ Raised(source_taxa) \/ Raised(target_taxa) THEN <<>>
          ELSE <<[weight |-> weight.val, source |-> source_taxa.val,
                  target |-> target_taxa.val]>>

\* parse_line with a weight that is not a number read as 0.
parse_line_word_weight_as_zero(line) ==
  IF Len(line) = 0 THEN <<>>
  ELSE IF Len(line) # 6 THEN <<>>
  ELSE LET weight == float(line[1])
           source_taxa == fragment_taxa(line[5])
           target_taxa == fragment_taxa(line[6])
       IN IF Raised(source_taxa) \/ Raised(target_taxa) THEN <<>>
          ELSE <<[weight |-> IF Raised(weight) THEN Rat(0, 1) ELSE weight.val,
                  source |-> source_taxa.val, target |-> target_taxa.val]>>

\* The body of the loop over the lines: what one line appends to
\* migration_edges.  Every exception of the try block is caught.
parse_line(line) ==
  IF Len(line) = 0 THEN <<>>
  ELSE IF Len(line) # 6 THEN <<>>
  ELSE LET weight == float(line[1])
           source_taxa == fragment_taxa(line[5])
           target_taxa == fragment_taxa(line[6])
       IN IF Raised(weight) \/ Raised(source_taxa) \/ Raised(target_taxa) THEN <<>>
          ELSE <<[weight |-> weight.val, source |-> source_taxa.val,
                  target |-> target_taxa.val]>>

RECURSIVE parse_lines(_)
parse_lines(lines) ==
  IF lines = <<>> THEN <<>> ELSE parse_line(Head(lines)) \o parse_lines(Tail(lines))

\* A file content is the sequence of its pieces, content.split(";").  Of a
\* piece the code uses its reading as a Newick statement (a tree, nothing but
\* blanks, or not a statement) and its lines.
DummyTree == MkTree(Shape({"A"}, {}), 0)

TreeText(t) == [kind |-> "tree", tree |-> t, lines |-> << << <<"newick">> >> >>]

LinesText(lines) ==
  [kind |-> IF \A i \in DOMAIN lines : lines[i] = <<>> THEN "blank" ELSE "invalid",
   tree |-> DummyTree, lines |-> lines]

BlankText == LinesText(<<>>)

\* extract_migration_edges_from_treeout(file)
extract_migration_edges_from_treeout(file) ==
  IF Len(file) < 2 THEN Raise("IndexError") ELSE Ok(parse_lines(file[2].lines))

\* Tree.get(file=StringIO(tree_str), schema="newick", ...): every statement of
\* the text is parsed and the first tree is returned.
Tree_get(tree_str) ==
  IF \E i \in DOMAIN tree_str : tree_str[i].kind = "invalid" THEN Raise("ParseError")
  ELSE IF \A i \in DOMAIN tree_str : tree_str[i].kind = "blank" THEN Raise("ParseError")
  ELSE Ok(tree_str[CHOOSE i \in DOMAIN tree_str :
                     /\ tree_str[i].kind = "tree"
                     /\ \A j \in 1..(i - 1) : tree_str[j].kind # "tree"].tree)

\* The tokens of a piece, as the Newick reader meets them.
RECURSIVE Flatten(_)
Flatten(seqs) == IF seqs = <<>> THEN <<>> ELSE Head(seqs) \o Flatten(Tail(seqs))

piece_tokens(piece) == Flatten(Flatten(piece.lines))

\* The labels the reader has added to taxon_namespace when it reaches the end
\* of the statement text[i..] or raises in it: a taxon is created as its leaf
\* is read, and stays when a later token raises.
RECURSIVE reader_taxa(_, _, _, _)
reader_taxa(text, i, depth, prev) ==
  IF i > Len(text) THEN {}
  ELSE IF depth = 0 /\ prev # "start" THEN {}
  ELSE LET a == text[i]
           next(d) == reader_taxa(text, i + 1, d, token_kind(a))
       IN IF a = "(" THEN IF prev \in {"start", "(", ","} THEN next(depth + 1) ELSE {}
          ELSE IF a \in Labels THEN IF prev \in {"(", ","} THEN {a} \cup next(depth) ELSE {}
          ELSE IF a = ":1" THEN IF prev \in {"label", ")"} THEN next(depth) ELSE {}
          ELSE IF a = "," THEN IF depth >= 1 THEN next(depth) ELSE {}
          ELSE IF a = ")" THEN IF depth >= 1 THEN next(depth - 1) ELSE {}
          ELSE {}

\* The labels Tree.get(file=StringIO(tree_str), ..., taxon_namespace=taxa) adds
\* to taxa, whether it returns or raises: those of the statements it read
\* before the one that raised, and those read in that one.
RECURSIVE Tree_get_taxa(_, _)
Tree_get_taxa(tree_str, i) ==
  IF i > Len(tree_str) THEN {}
  ELSE IF tree_str[i].kind = "tree"
       THEN leaf_labels(tree_str[i].tree) \cup Tree_get_taxa(tree_str, i + 1)
  ELSE IF tree_str[i].kind = "blank" THEN Tree_get_taxa(tree_str, i + 1)
  ELSE reader_taxa(piece_tokens(tree_str[i]), 1, 0, "start")

\* load_single_tree(path) on the stripped text of the file: the tree, and
\* what it stored in migration_edges[path], or the exception it raised.
load_single_tree(tree_str) ==
  LET whole == Tree_get(tree_str)
      composite == Len(tree_str) >= 2
      edges == IF composite THEN extract_migration_edges_from_treeout(tree_str).val ELSE <<>>
      second == Tree_get(IF composite THEN <<tree_str[1], BlankText>> ELSE tree_str)
      taxa == Tree_get_taxa(tree_str, 1)
  IN IF ~Raised(whole)
     THEN [exc |-> "none", tree |-> whole.val, recorded |-> FALSE, edges |-> <<>>,
           taxa |-> taxa]
     ELSE IF Raised(second)
     THEN [exc |-> second.exc, tree |-> DummyTree, recorded |-> composite, edges |-> edges,
           taxa |-> taxa]
     ELSE [exc |-> "none", tree |-> second.val, recorded |-> composite, edges |-> edges,
           taxa |-> taxa \cup leaf_labels(second.val)]

\* load_trees(baseline_path, tree_path): both files in turn, the baseline
\* first, against the one TaxonNamespace taxa created by the call;
\* migration_edges has a key for each path the extractor was run on.
load_trees(baseline_str, tree_str) ==
  LET b == load_single_tree(baseline_str)
      t == load_single_tree(tree_str)
      recorded == (IF b.recorded THEN {"baseline_path"} ELSE {})
                    \cup (IF t.recorded THEN {"tree_path"} ELSE {})
  IN IF Raised(b) THEN Raise(b.exc)
     ELSE IF Raised(t) THEN Raise(t.exc)
     ELSE Ok([tree1 |-> b.tree, tree2 |-> t.tree, taxa |-> b.taxa \cup t.taxa,
              migration_edges |-> [p \in recorded |->
                                     IF p = "baseline_path" THEN b.edges ELSE t.edges]])

\* -------------------------------------------------- population_manipulation
\* A population list is the sequence of its rows; row i is the individual i
\* with its population.
Populations == {"P", "Q"}

\* Populations that can be named in populations_to_reduce: those of the
\* lists, and one that no list has.
NamedPopulations == Populations \cup {"R"}

poplist_df(poplist) == [i \in DOMAIN poplist |-> [IID |-> i, Population |-> poplist[i]]]

\* df[df["Population"] == pop]
rows_of(df, pop) == SelectSeq(df, LAMBDA row : row.Population = pop)

RECURSIVE concat_reduced(_, _, _, _)
\* reduced_list of the loop "for pop in populations_to_reduce": the rows of
\* each listed population, or the rows sample drew of it when it has more than
\* max_per_population.  sample[pop] is the list of IIDs that
\* sub_df.sample(n=max_per_population, random_state=42) returns, in the order
\* they were drawn in.
concat_reduced(df, populations_to_reduce, max_per_population, sample) ==
  IF populations_to_reduce = <<>> THEN <<>>
  ELSE LET pop == Head(populations_to_reduce)
           sub_df == rows_of(df, pop)
           kept == IF Len(sub_df) > max_per_population
                   THEN [k \in DOMAIN sample[pop] |-> df[sample[pop][k]]]
                   ELSE sub_df
       IN kept \o concat_reduced(df, Tail(populations_to_reduce), max_per_population, sample)

\* reduce_population_counts(poplist_file, out_path, populations_to_reduce,
\* max_per_population): the exception raised, or whether out_path was written
\* and with what.
reduce_population_counts(poplist, populations_to_reduce, max_per_population, sample) ==
  LET df == poplist_df(poplist)
      existing_populations == {poplist[i] : i \in DOMAIN poplist}
      valid == SelectSeq(populations_to_reduce, LAMBDA pop : pop \in existing_populations)
      named == {valid[i] : i \in DOMAIN valid}
      keep_as_is_df == SelectSeq(df, LAMBDA row : row.Population \notin named)
      reduced_df == concat_reduced(df, valid, max_per_population, sample)
  IN IF max_per_population < 1 THEN Raise("ValueError")
     ELSE IF poplist = <<>> THEN Raise("ValueError")
     ELSE IF valid = <<>> THEN Ok([written |-> FALSE, final_df |-> <<>>])
     ELSE Ok([written |-> TRUE, final_df |-> keep_as_is_df \o reduced_df])

\* pop_to_inds[pop][i]: the dict is keyed by name, so of a name that occurs
\* more than once in pop_names the last group of lines stays.  Lines and
\* individuals are counted from 0.
pop_to_inds(pop_names, n_per_pop, pop, i) ==
  LET last == CHOOSE j \in DOMAIN pop_names :
                /\ pop_names[j] = pop
                /\ \A k \in DOMAIN pop_names : pop_names[k] = pop => k <= j
  IN (last - 1) * n_per_pop + i

RECURSIVE hybrid_geno(_, _, _, _, _)
\* geno of hybrid i from block block_index on: the alleles of the SNPs of each
\* block, of the i-th individual of the population of the block.  An
\* individual and a SNP are counted from 0; <<k, snp>> stands for the two
\* alleles of SNP snp of the individual of line k.
hybrid_geno(i, block_index, pop_names, n_per_pop, snp_count) ==
  LET n_pops == Len(pop_names)
  IN IF block_index >= n_pops THEN <<>>
     ELSE LET snps_per_block == snp_count \div n_pops
              start_snp == block_index * snps_per_block
              end_snp == IF block_index = n_pops - 1 THEN snp_count
                         ELSE (block_index + 1) * snps_per_block
              selected == pop_to_inds(pop_names, n_per_pop, pop_names[block_index + 1], i)
          IN [x \in 1..(end_snp - start_snp) |-> <<selected, start_snp + x - 1>>]
               \o hybrid_geno(i, block_index + 1, pop_names, n_per_pop, snp_count)

\* create_snpsplit_hybrids_aligned on a .ped file of total_inds lines with
\* snp_count SNPs each and the names pop_names: the exception raised, or the
\* lines written to <hybrid_label>.ped.  Without a name the division by
\* n_pops raises ZeroDivisionError, which leaves the function as an Exception.
create_snpsplit_hybrids_aligned(total_inds, snp_count, pop_names) ==
  LET n_pops == Len(pop_names)
  IN IF total_inds = 0 THEN Raise("ValueError")
     ELSE IF n_pops = 0 THEN Raise("Exception")
     ELSE IF total_inds % n_pops # 0 THEN Raise("ValueError")
     ELSE LET n_per_pop == total_inds \div n_pops
          IN Ok([i \in 1..n_per_pop |->
                   [id |-> i - 1,
                    geno |-> hybrid_geno(i - 1, 0, pop_names, n_per_pop, snp_count)]])

\* ------------------------------------------------------------------ state
VARIABLES
  tree1,            \* TreeComparator.tree1
  tree2,            \* TreeComparator.tree2
  migration_edges,  \* TreeComparator.migration_edges: path -> list of edges
  results,          \* TreeComparator.results: section name -> value
  outcome,          \* the last call: its arguments and how it ended
  files,            \* the output directory: file name -> content
  key_set_order,    \* the order a key set is iterated in by _compute_z_score called on its own
  exp_files,        \* batch: the experiment files, in glob order
  baseline_dir,     \* batch: the file names present in the baseline folder
  idx,              \* batch: number of experiment files the loop has taken
  printed,          \* batch: the lines printed so far
  compared,         \* batch: the compare_two_trees calls made so far
  batch_state       \* batch: idle | running | completed | aborted

comparator_vars == <<tree1, tree2, migration_edges, results, files>>
batch_vars == <<exp_files, baseline_dir, idx, printed, compared, batch_state>>
vars == <<tree1, tree2, migration_edges, results, outcome, files, key_set_order,
          exp_files, baseline_dir, idx, printed, compared, batch_state>>

\* What load_trees can hand over as migration edges: nothing (two plain
\* trees), a composite file without a valid migration line, a composite file
\* with one edge.
MigrationChoices ==
  {EmptyDict,
   [p \in {"tree_path"} |-> <<>>],
   [p \in {"tree_path"} |-> <<[weight |-> 1, source |-> <<"A">>, target |-> <<"B">>]>>]}

\* bool(d) of a dict
Truthy(d) == DOMAIN d # {}

_write_results(res, mig, fs) ==
  LET f1 == Put(fs, "tree_comparison_results.json", res)
      f2 == Put(f1, "differences.txt", res["sibling_comparisons"].different_populations)
  IN IF Truthy(mig) THEN Put(f2, "migration_edges.json", mig) ELSE f2

NoCall == [call |-> "none"]

NoBatch ==
  /\ exp_files = <<>>
  /\ baseline_dir = {}
  /\ idx = 0
  /\ printed = <<>>
  /\ compared = <<>>
  /\ batch_state = "idle"

NoComparator ==
  /\ tree1 = MkTree(Shape({"A"}, {}), 0)
  /\ tree2 = MkTree(Shape({"A"}, {}), 0)
  /\ migration_edges = EmptyDict
  /\ results = EmptyDict
  /\ files = EmptyDict

\* TreeComparator.__init__ on the trees and edges load_trees returned.
Init ==
  /\ tree1 \in BaselineTrees
  /\ tree2 \in Trees
  /\ migration_edges \in MigrationChoices
  /\ results = EmptyDict
  /\ outcome = NoCall
  /\ files = EmptyDict
  /\ key_set_order = LabelSeq
  /\ NoBatch

\* compare_trees with the trees pruned before global_distances is computed.
compare_trees_prune_first(pruned) ==
  LET common_taxa == leaf_labels(tree1) \cap leaf_labels(tree2)
      t1 == IF pruned THEN extract_tree_with_taxa_labels(tree1, common_taxa) ELSE tree1
      t2 == IF pruned THEN extract_tree_with_taxa_labels(tree2, common_taxa) ELSE tree2
      g == _calculate_distances(t1, t2)
      r1 == Put(results, "global_distances", g.val)
      gp == _calculate_distances(t1, t2)
      r2 == IF pruned THEN Put(r1, "global_distances_pruned", gp.val) ELSE r1
      r3 == Put(r2, "sibling_comparisons", _compare_siblings(t1, t2, common_taxa))
      r4 == Put(r3, "root_distances", _compare_root_distances(t1, t2))
      r5 == Put(r4, "pairwise_distances",
                _compare_pairwise_distances(t1, t2, common_taxa))
      r6 == IF Truthy(migration_edges) THEN Put(r5, "migration_edges", migration_edges) ELSE r5
  IN /\ IF Raised(g)
        THEN /\ outcome' = [call |-> "compare_trees", pruned |-> pruned, exc |-> g.exc]
             /\ UNCHANGED <<tree1, tree2, results, files>>
        ELSE IF pruned /\ Raised(gp)
        THEN /\ outcome' = [call |-> "compare_trees", pruned |-> pruned, exc |-> gp.exc]
             /\ tree1' = t1
             /\ tree2' = t2
             /\ results' = r1
             /\ UNCHANGED files
        ELSE /\ outcome' = [call |-> "compare_trees", pruned |-> pruned, exc |-> "none"]
             /\ tree1' = t1
             /\ tree2' = t2
             /\ results' = r6
             /\ files' = _write_results(r6, migration_edges, files)
     /\ UNCHANGED <<migration_edges, key_set_order>>
     /\ UNCHANGED batch_vars

\* compare_trees with the results file written before the first metric.
compare_trees_writes_first(pruned) ==
  LET common_taxa == leaf_labels(tree1) \cap leaf_labels(tree2)
      g == _calculate_distances(tree1, tree2)
      r1 == Put(results, "global_distances", g.val)
      t1 == IF pruned THEN extract_tree_with_taxa_labels(tree1, common_taxa) ELSE tree1
      t2 == IF pruned THEN extract_tree_with_taxa_labels(tree2, common_taxa) ELSE tree2
      gp == _calculate_distances(t1, t2)
      r2 == IF pruned THEN Put(r1, "global_distances_pruned", gp.val) ELSE r1
      r3 == Put(r2, "sibling_comparisons", _compare_siblings(t1, t2, common_taxa))
      r4 == Put(r3, "root_distances", _compare_root_distances(t1, t2))
      r5 == Put(r4, "pairwise_distances",
                _compare_pairwise_distances(t1, t2, common_taxa))
      r6 == IF Truthy(migration_edges) THEN Put(r5, "migration_edges", migration_edges) ELSE r5
  IN /\ IF Raised(g)
        THEN /\ outcome' = [call |-> "compare_trees", pruned |-> pruned, exc |-> g.exc]
             /\ files' = Put(files, "tree_comparison_results.json", results)
             /\ UNCHANGED <<tree1, tree2, results>>
        ELSE IF pruned /\ Raised(gp)
        THEN /\ outcome' = [call |-> "compare_trees", pruned |-> pruned, exc |-> gp.exc]
             /\ tree1' = t1
             /\ tree2' = t2
             /\ results' = r1
             /\ UNCHANGED files
        ELSE /\ outcome' = [call |-> "compare_trees", pruned |-> pruned, exc |-> "none"]
             /\ tree1' = t1
             /\ tree2' = t2
             /\ results' = r6
             /\ files' = _write_results(r6, migration_edges, files)
     /\ UNCHANGED <<migration_edges, key_set_order>>
     /\ UNCHANGED batch_vars

\* TreeComparator.compare_trees(pruned); self.results is filled section by
\* section, so a raise leaves the sections assigned before it.
compare_trees(pruned) ==
  LET common_taxa == leaf_labels(tree1) \cap leaf_labels(tree2)
      g == _calculate_distances(tree1, tree2)
      r1 == Put(results, "global_distances", g.val)
      t1 == IF pruned THEN extract_tree_with_taxa_labels(tree1, common_taxa) ELSE tree1
      t2 == IF pruned THEN extract_tree_with_taxa_labels(tree2, common_taxa) ELSE tree2
      gp == _calculate_distances(t1, t2)
      r2 == IF pruned THEN Put(r1, "global_distances_pruned", gp.val) ELSE r1
      r3 == Put(r2, "sibling_comparisons", _compare_siblings(t1, t2, common_taxa))
      r4 == Put(r3, "root_distances", _compare_root_distances(t1, t2))
      r5 == Put(r4, "pairwise_distances",
                _compare_pairwise_distances(t1, t2, common_taxa))
      r6 == IF Truthy(migration_edges) THEN Put(r5, "migration_edges", migration_edges) ELSE r5
  IN /\ IF Raised(g)
        THEN /\ outcome' = [call |-> "compare_trees", pruned |-> pruned, exc |-> g.exc]
             /\ UNCHANGED <<tree1, tree2, results, files>>
        ELSE IF pruned /\ Raised(gp)
        THEN /\ outcome' = [call |-> "compare_trees", pruned |-> pruned, exc |-> gp.exc]
             /\ tree1' = t1
             /\ tree2' = t2
             /\ results' = r1
             /\ UNCHANGED files
        ELSE /\ outcome' = [call |-> "compare_trees", pruned |-> pruned, exc |-> "none"]
             /\ tree1' = t1
             /\ tree2' = t2
             /\ results' = r6
             /\ files' = _write_results(r6, migration_edges, files)
     /\ UNCHANGED <<migration_edges, key_set_order>>
     /\ UNCHANGED batch_vars

CompareTrees == \E pruned \in BOOLEAN : compare_trees(pruned)

Next == CompareTrees

Spec == Init /\ [][Next]_vars

\* ----------------------------------------------- the static helper methods
\* TreeComparator._get_sibling_taxa(tree, taxon_label), called on its own.
GetSiblingTaxa ==
  \E t \in Trees, l \in Labels :
    /\ outcome = NoCall
    /\ outcome' = [call |-> "_get_sibling_taxa", tree |-> t, taxon_label |-> l,
                   ret |-> _get_sibling_taxa(t, l)]
    /\ UNCHANGED <<comparator_vars, key_set_order, batch_vars>>

InitSiblings ==
  /\ NoComparator
  /\ NoBatch
  /\ outcome = NoCall
  /\ key_set_order = LabelSeq

SpecSiblings == InitSiblings /\ [][GetSiblingTaxa]_vars

\* TreeComparator._pairwise_distances(tree, taxa), called on its own on a tree
\* and taxa of it, as _compare_pairwise_distances calls it.
PairwiseDistances ==
  \E t \in Trees :
    \E taxa \in SUBSET leaf_labels(t) :
      /\ outcome = NoCall
      /\ outcome' = [call |-> "_pairwise_distances", tree |-> t, taxa |-> taxa,
                     ret |-> _pairwise_distances(t, taxa)]
      /\ UNCHANGED <<comparator_vars, key_set_order, batch_vars>>

SpecPairwise == InitSiblings /\ [][PairwiseDistances]_vars

\* TreeComparator._normalized_rf(pruned_rf, shared_taxa, rooted), called on
\* its own.
NormalizedRf ==
  \E pruned_rf \in 0..(2 * MaxShared), shared_taxa \in 0..MaxShared, rooted \in BOOLEAN :
    /\ outcome = NoCall
    /\ outcome' = [call |-> "_normalized_rf", pruned_rf |-> pruned_rf,
                   shared_taxa |-> shared_taxa, rooted |-> rooted,
                   ret |-> _normalized_rf(pruned_rf, shared_taxa, rooted)]
    /\ UNCHANGED <<comparator_vars, key_set_order, batch_vars>>

\* TreeComparator._normalize_bsd(bsd, shared_taxa, rooted), called on its own.
NormalizeBsd ==
  \E bsd_sq \in 0..(2 * MaxShared), shared_taxa \in 0..MaxShared, rooted \in BOOLEAN :
    /\ outcome = NoCall
    /\ outcome' = [call |-> "_normalize_bsd", bsd_sq |-> bsd_sq,
                   shared_taxa |-> shared_taxa, rooted |-> rooted,
                   ret |-> _normalize_bsd(bsd_sq, shared_taxa, rooted)]
    /\ UNCHANGED <<comparator_vars, key_set_order, batch_vars>>

NextNormalize == NormalizedRf \/ NormalizeBsd

SpecNormalize == InitSiblings /\ [][NextNormalize]_vars

\* TreeComparator._compare_siblings(common_taxa), called on its own on a
\* comparator, with the taxa common to its trees.
CompareSiblings ==
  LET common_taxa == leaf_labels(tree1) \cap leaf_labels(tree2)
  IN /\ outcome = NoCall
     /\ outcome' = [call |-> "_compare_siblings", common_taxa |-> common_taxa,
                    ret |-> _compare_siblings(tree1, tree2, common_taxa)]
     /\ UNCHANGED <<comparator_vars, key_set_order, batch_vars>>

\* TreeComparator.__init__ on any two trees, without migration edges.
InitCompareSiblings ==
  /\ tree1 \in BaselineTrees
  /\ tree2 \in Trees
  /\ migration_edges = EmptyDict
  /\ results = EmptyDict
  /\ outcome = NoCall
  /\ files = EmptyDict
  /\ key_set_order = LabelSeq
  /\ NoBatch

SpecCompareSiblings == InitCompareSiblings /\ [][CompareSiblings]_vars

\* reduce_population_counts, called on a population list file.
PopLists == UNION {[1..k -> Populations] : k \in 0..MaxRows}

ReduceLists == UNION {[1..k -> NamedPopulations] : k \in 0..2}

\* What sub_df.sample(n=max_per_population) can return of the rows of pop:
\* max_per_population of them, each once, in any order; nothing is drawn of a
\* population that has no more rows than that.
Draws(poplist, pop, max_per_population) ==
  LET ids == {i \in DOMAIN poplist : poplist[i] = pop}
  IN IF Cardinality(ids) > max_per_population
     THEN {q \in [1..max_per_population -> ids] :
             \A i, j \in DOMAIN q : i # j => q[i] # q[j]}
     ELSE {<<>>}

Samples(poplist, max_per_population) ==
  {[pop \in Populations |-> IF pop = "P" THEN p ELSE q] :
     p \in Draws(poplist, "P", max_per_population),
     q \in Draws(poplist, "Q", max_per_population)}

ReducePopulationCounts ==
  \E poplist \in PopLists, populations_to_reduce \in ReduceLists,
     max_per_population \in 0..MaxPerPopulation :
    \E sample \in Samples(poplist, max_per_population) :
      LET ret == reduce_population_counts(poplist, populations_to_reduce,
                                          max_per_population, sample)
      IN /\ outcome = NoCall
         /\ outcome' = [call |-> "reduce_population_counts", poplist |-> poplist,
                        populations_to_reduce |-> populations_to_reduce,
                        max_per_population |-> max_per_population, exc |-> ret.exc]
         /\ files' = IF ~Raised(ret) /\ ret.val.written
                     THEN Put(files, "out_path", ret.val.final_df) ELSE files
         /\ UNCHANGED <<tree1, tree2, migration_edges, results, key_set_order, batch_vars>>

SpecReduce == InitSiblings /\ [][ReducePopulationCounts]_vars

\* create_snpsplit_hybrids_aligned, called on a .ped file.
\* pop_names: any list of at most MaxPops names, a name more than once too.
PopNameLists == UNION {[1..k -> NamedPopulations] : k \in 0..MaxPops}

CreateSnpsplitHybridsAligned ==
  \E total_inds \in 0..MaxInds, snp_count \in 0..MaxSnps, pop_names \in PopNameLists :
    LET ret == create_snpsplit_hybrids_aligned(total_inds, snp_count, pop_names)
    IN /\ outcome = NoCall
       /\ outcome' = [call |-> "create_snpsplit_hybrids_aligned", total_inds |-> total_inds,
                      snp_count |-> snp_count, pop_names |-> pop_names,
                      n_pops |-> Len(pop_names), exc |-> ret.exc]
       /\ files' = IF Raised(ret) THEN files ELSE Put(files, "hybrid_label.ped", ret.val)
       /\ UNCHANGED <<tree1, tree2, migration_edges, results, key_set_order, batch_vars>>

SpecHybrids == InitSiblings /\ [][CreateSnpsplitHybridsAligned]_vars

\* The keys and the mappings _compute_z_score is called on.
ZKeys == {"A", "B", "C"}

DistMaps == UNION {[K -> 0..MaxDist] : K \in SUBSET ZKeys}

\* TreeComparator._compute_z_score(dist1, dist2), called on its own.
ComputeZScore ==
  \E d1 \in DistMaps, d2 \in DistMaps :
    /\ outcome = NoCall
    /\ outcome' = [call |-> "_compute_z_score", dist1 |-> d1, dist2 |-> d2,
                   ret |-> _compute_z_score(d1, d2, key_set_order)]
    /\ UNCHANGED <<comparator_vars, key_set_order, batch_vars>>

InitZ ==
  /\ NoComparator
  /\ NoBatch
  /\ outcome = NoCall
  /\ key_set_order \in Permutations4

SpecZ == InitZ /\ [][ComputeZScore]_vars

\* ------------------------------------------------- the files that are read
Reserved == <<"x">>
FragAB == <<"(", "A", ",", "B", ")">>
FragCD == <<"(", "C", ",", "D", ")">>
FragNested == <<"(", "(", "A", ",", "B", ")", ":1", ",", "C", ")">>
FragOpen == <<"(", "A", ",">>
FragEmptyLeaf == <<"(", ",", "B", ")">>

ExampleLine == <<<<"0.25">>, Reserved, Reserved, Reserved, FragAB, FragCD>>
NestedLine == <<<<"1">>, Reserved, Reserved, Reserved, FragNested, FragCD>>
FiveFieldLine == <<<<"0.25">>, Reserved, Reserved, FragAB, FragCD>>
SevenFieldLine == <<<<"0.25">>, Reserved, Reserved, Reserved, FragAB, FragCD, Reserved>>
WordWeightLine == <<Reserved, Reserved, Reserved, Reserved, FragAB, FragCD>>
FragmentFirstLine == <<FragCD, FragAB>>
OpenFragmentLine == <<<<"0.25">>, Reserved, Reserved, Reserved, FragOpen, FragCD>>
EmptyLeafLine == <<<<"0.25">>, Reserved, Reserved, Reserved, FragAB, FragEmptyLeaf>>

\* The lines of a migration block: blank, well formed, of a wrong field
\* count, and of 6 fields that do not parse.
MigrationLines ==
  {<<>>, ExampleLine, NestedLine, FiveFieldLine, SevenFieldLine, WordWeightLine,
   OpenFragmentLine, EmptyLeafLine}

Blocks == UNION {[1..k -> MigrationLines] : k \in 0..MaxLines}

\* The trees written in the files.
FileTrees ==
  {MkTree(Shape(Labels, {{"A", "B"}, {"C", "D"}}), 1),
   MkTree(Shape({"A", "B", "C"}, {{"A", "C"}}), 1)}

\* Tree-output texts handed to the extractor: a tree statement, the block
\* after its ";", and in some a further ";" with a line after it.
MigFiles ==
  {<<TreeText(t), LinesText(b)>> : t \in {DummyTree}, b \in Blocks}
    \cup {<<TreeText(t), LinesText(b), LinesText(<<ExampleLine>>)>> :
            t \in {DummyTree}, b \in Blocks}

\* What can follow the first statement of a file: nothing after its ";", a
\* migration block, a block without a well-formed line, a block whose line
\* opens with a fragment, a block with a second ";" in it, a second tree
\* statement.
Remainders ==
  {<<BlankText>>,
   <<LinesText(<<<<>>, FragmentFirstLine>>)>>,
   <<LinesText(<<<<>>, ExampleLine>>)>>,
   <<LinesText(<<<<>>, FiveFieldLine>>)>>,
   <<LinesText(<<<<>>, ExampleLine>>), LinesText(<<<<>>, NestedLine>>)>>}
    \cup {<<TreeText(t), BlankText>> : t \in FileTrees}

NotNewick == LinesText(<<<<Reserved>>>>)

\* What can follow a ";" that opens a file: a tree statement, and after it
\* nothing or a migration block.
AfterLeadingSemicolon ==
  {<<TreeText(t)>> \o rest : t \in FileTrees,
                             rest \in {<<BlankText>>, <<LinesText(<<<<>>, ExampleLine>>)>>}}

\* The stripped contents of the files load_trees opens: a first statement that
\* is a tree or is not Newick, and what follows it; a text that opens with
\* ";", its first statement empty; or text without any ";".
Contents ==
  {<<first>> \o rest : first \in {TreeText(t) : t \in FileTrees} \cup {NotNewick},
                       rest \in Remainders}
    \cup {<<BlankText>> \o rest : rest \in AfterLeadingSemicolon}
    \cup {<<NotNewick>>}

\* extract_migration_edges_from_treeout(file), called on its own.
ExtractMigrationEdges ==
  \E file \in MigFiles :
    /\ outcome = NoCall
    /\ outcome' = [call |-> "extract_migration_edges_from_treeout", file |-> file,
                   ret |-> extract_migration_edges_from_treeout(file)]
    /\ UNCHANGED <<comparator_vars, key_set_order, batch_vars>>

InitMigration ==
  /\ NoComparator
  /\ NoBatch
  /\ outcome = NoCall
  /\ key_set_order = LabelSeq

SpecMigration == InitMigration /\ [][ExtractMigrationEdges]_vars

\* main, first half: load_trees on the two files and, when it returned,
\* TreeComparator(tree1, tree2, output_dir, migration_edges, basename).
LoadTrees ==
  \E baseline_str \in Contents, tree_str \in Contents :
    LET loaded == load_trees(baseline_str, tree_str)
    IN /\ outcome = NoCall
       /\ outcome' = [call |-> "load_trees", baseline |-> baseline_str,
                      tree |-> tree_str, exc |-> loaded.exc,
                      taxon_namespace |-> IF Raised(loaded) THEN {} ELSE loaded.val.taxa]
       /\ IF Raised(loaded)
          THEN UNCHANGED <<tree1, tree2, migration_edges, results>>
          ELSE /\ tree1' = loaded.val.tree1
               /\ tree2' = loaded.val.tree2
               /\ migration_edges' = loaded.val.migration_edges
               /\ results' = EmptyDict
       /\ UNCHANGED <<files, key_set_order, batch_vars>>

\* main, second half: comparator.compare_trees(pruned=pruned).
MainCompareTrees ==
  /\ outcome.call = "load_trees"
  /\ outcome.exc = "none"
  /\ CompareTrees

InitLoad ==
  /\ NoComparator
  /\ NoBatch
  /\ outcome = NoCall
  /\ key_set_order = LabelSeq

NextLoad == LoadTrees \/ MainCompareTrees

SpecLoad == InitLoad /\ [][NextLoad]_vars

\* ------------------------------------------------------------------ batch
\* compare_two_trees(baseline_path, experimental_path, output_dir, basename,
\* pruned): one comparison of a file pair.  It returns, or it raises what the
\* comparison raises: a parse error of a tree statement, or the ValueError of
\* fewer than 3 shared taxa.
CompareOutcomes == {"ok", "ParseError", "ValueError"}

compare_two_trees(baseline_path, experimental_path, basename, pruned, how) ==
  [baseline_path |-> baseline_path, experimental_path |-> experimental_path,
   basename |-> basename, pruned |-> pruned, result |-> how]

\* compare_experiment_to_baseline is called on a directory listing.
InitBatch ==
  /\ NoComparator
  /\ outcome = NoCall
  /\ key_set_order = LabelSeq
  /\ exp_files \in FileLists
  /\ baseline_dir \in SUBSET BaselineNames
  /\ idx = 0
  /\ printed = <<>>
  /\ compared = <<>>
  /\ batch_state = "running"

\* One pass of the for loop over the experiment files.
loop_body(experiment_tree_file, how) ==
  LET baseline_name == baseline_filename(experiment_tree_file)
      call == compare_two_trees(baseline_name, experiment_tree_file,
                                output_basename(experiment_tree_file), TRUE, how)
  IN IF baseline_name \notin baseline_dir
     THEN /\ printed' = Append(printed, [line |-> "skipping", file |-> experiment_tree_file,
                                          baseline |-> baseline_name])
          /\ UNCHANGED <<compared, batch_state>>
     ELSE /\ printed' = Append(printed, [line |-> "comparing", file |-> experiment_tree_file,
                                          baseline |-> baseline_name])
          /\ compared' = Append(compared, call)
          /\ batch_state' = IF call.result = "ok" THEN "running" ELSE "aborted"

BatchStep ==
  /\ batch_state = "running"
  /\ idx < Len(exp_files)
  /\ \E how \in CompareOutcomes : loop_body(exp_files[idx + 1], how)
  /\ idx' = idx + 1
  /\ UNCHANGED <<comparator_vars, outcome, key_set_order, exp_files, baseline_dir>>

\* After the loop: the closing line.
BatchComplete ==
  /\ batch_state = "running"
  /\ idx = Len(exp_files)
  /\ printed' = Append(printed, [line |-> "all_comparisons_complete"])
  /\ batch_state' = "completed"
  /\ UNCHANGED <<comparator_vars, outcome, key_set_order, exp_files, baseline_dir, idx, compared>>

NextBatch == BatchStep \/ BatchComplete

SpecBatch == InitBatch /\ [][NextBatch]_vars

\* ----------------------------------------------------------------- claims
SharedTaxa == Cardinality(leaf_labels(tree1) \cap leaf_labels(tree2))

Returned == outcome.call = "compare_trees" /\ outcome.exc = "none"

\* C1: comparing any valid tree with itself (any number of leaves, fewer than
\* 3 included) returns jaccard_index = 1, same_taxa = true, rf_distance = 0
\* and bsd = 0 and does not raise.
C1_SelfComparisonIsIdentity ==
  (outcome.call = "compare_trees" /\ ~outcome.pruned /\ tree1 = tree2) =>
    /\ outcome.exc = "none"
    /\ RatIsOne(results["global_distances"].jaccard_index)
    /\ results["global_distances"].same_taxa
    /\ results["global_distances"].rf_distance = 0
    /\ results["global_distances"].bsd_sq = 0

\* The part of C1 the code keeps: a tree with at least 3 leaves compared with
\* itself gives jaccard_index = 1, same_taxa, rf_distance = 0, bsd = 0.
SelfComparisonWithThreeLeaves ==
  (outcome.call = "compare_trees" /\ ~outcome.pruned /\ tree1 = tree2
     /\ Cardinality(leaf_labels(tree1)) >= 3) =>
    /\ outcome.exc = "none"
    /\ RatIsOne(results["global_distances"].jaccard_index)
    /\ results["global_distances"].same_taxa
    /\ results["global_distances"].rf_distance = 0
    /\ results["global_distances"].bsd_sq = 0

\* C2: for rooted trees sharing at least 3 taxa (their leaf sets may differ)
\* normalized_rf and normalized_bsd of _calculate_distances lie in [0, 1].
C2_NormalizedDistancesInUnitInterval ==
  Returned =>
    LET g == results["global_distances"]
    IN g.taxa_info.common_taxa_count >= 3 =>
         /\ RatInUnit(g.normalized_rf)
         /\ g.normalized_bsd.den > 0
         /\ g.normalized_bsd.sq_num <= g.normalized_bsd.den * g.normalized_bsd.den

ExampleTree1 == Shape(Labels, {{"A", "B"}, {"C", "D"}})
ExampleTree2 == Shape(Labels, {{"A", "C"}, {"B", "D"}})

\* C3: ((A,B),(C,D)); against ((A,C),(B,D)); gives shared = 4, max_rf = 4,
\* rf_distance = 4 and normalized_rf = 1.0; and for rooted trees with at least
\* 3 shared taxa normalized_rf is rf_distance / (2 * (shared - 2)).
C3_NormalizedRfOfRootedTrees ==
  Returned =>
    LET g == results["global_distances"]
    IN /\ g.taxa_info.common_taxa_count >= 3
       /\ g.normalized_rf = Rat(g.rf_distance, 2 * (g.taxa_info.common_taxa_count - 2))
       /\ (DOMAIN tree1 = ExampleTree1 /\ DOMAIN tree2 = ExampleTree2) =>
            /\ g.taxa_info.common_taxa_count = 4
            /\ g.rf_distance = 4
            /\ g.normalized_rf = Rat(4, 4)

C3_ExampleCompared ==
  Returned /\ DOMAIN tree1 = ExampleTree1 /\ DOMAIN tree2 = ExampleTree2

\* C4: with fewer than 3 shared taxa the error of the normalized distance is
\* fatal for that metric only: compare_trees still computes
\* sibling_comparisons, root_distances and pairwise_distances and still hands
\* the result to the writer.
C4_SharedTaxaErrorIsLocal ==
  (outcome.call = "compare_trees" /\ SharedTaxa < 3) =>
    /\ {"sibling_comparisons", "root_distances", "pairwise_distances"} \subseteq DOMAIN results
    /\ "tree_comparison_results.json" \in DOMAIN files

Processed(name) ==
  \E j \in 1..Len(printed) :
    printed[j].line \in {"skipping", "comparing"} /\ printed[j].file = name

\* C5: a failure local to one file pair (an unparsable tree, fewer than 3
\* shared taxa) never aborts the batch: every later experiment file is still
\* processed.
C5_PairFailureNeverAbortsBatch ==
  batch_state \in {"completed", "aborted"} =>
    \A i \in 1..Len(exp_files) : Processed(exp_files[i])

\* Where a name holds m_ followed by a digit.
TokenAt(name, i) ==
  i + 2 <= Len(name) /\ name[i] = "m" /\ name[i + 1] = "_" /\ IsDigit(name[i + 2])

HasMigrationToken(name) == \E i \in 1..Len(name) : TokenAt(name, i)

\* The digits of the first m_<digits> of a name.
TokenDigits(name) ==
  LET i == CHOOSE k \in 1..Len(name) : TokenAt(name, k) /\ \A h \in 1..(k - 1) : ~TokenAt(name, h)
      e == CHOOSE k \in (i + 2)..Len(name) :
             /\ \A h \in (i + 2)..k : IsDigit(name[h])
             /\ (k = Len(name) \/ ~IsDigit(name[k + 1]))
  IN SubSeq(name, i + 2, e)

ExpectedBaseline(name) ==
  IF HasMigrationToken(name)
  THEN <<"baseline_", "m", "_">> \o TokenDigits(name) \o <<"_output.treeout.gz">>
  ELSE <<"baseline_seed1_output.treeout.gz">>

\* C6: a file whose name holds m_<digits> is paired with
\* baseline_m_<digits>_output.treeout.gz, any other file with
\* baseline_seed1_output.treeout.gz; when the paired baseline does not exist
\* the file is skipped with a warning, no comparison is run for it, and the
\* loop goes on with the next file.
C6_BaselinePairingAndSkip ==
  /\ Len(printed) >= idx
  /\ \A i \in 1..idx :
       /\ printed[i].file = exp_files[i]
       /\ printed[i].baseline = ExpectedBaseline(exp_files[i])
       /\ printed[i].line = (IF ExpectedBaseline(exp_files[i]) \in baseline_dir
                             THEN "comparing" ELSE "skipping")
       /\ printed[i].line = "skipping" =>
            \A j \in 1..Len(compared) : compared[j].experimental_path # exp_files[i]
       /\ printed[i].line = "comparing" =>
            \E j \in 1..Len(compared) :
              /\ compared[j].experimental_path = exp_files[i]
              /\ compared[j].baseline_path = ExpectedBaseline(exp_files[i])
  /\ (idx >= 1 /\ Len(printed) = idx /\ printed[idx].line = "skipping") =>
       batch_state = "running"

C6_SkippedThenContinued ==
  /\ idx = 2
  /\ HasMigrationToken(exp_files[1])
  /\ printed[1].line = "skipping"
  /\ printed[2].line = "comparing"

\* C7: at the end of a batch run the program reports how many file pairs
\* succeeded, were skipped and failed, and the three counts sum to the number
\* of experiment files scanned.
C7_BatchReportsCounts ==
  batch_state = "completed" =>
    \E j \in 1..Len(printed) :
      /\ printed[j].line = "summary"
      /\ printed[j].succeeded + printed[j].skipped + printed[j].failed = Len(exp_files)

\* C8: _get_sibling_taxa never returns the queried label, and returns the
\* empty set for a label absent from the tree and for a leaf that is the root.
C8_SiblingsExcludeQueriedLabel ==
  outcome.call = "_get_sibling_taxa" =>
    /\ outcome.taxon_label \notin outcome.ret
    /\ (outcome.taxon_label \notin leaf_labels(outcome.tree) => outcome.ret = {})
    /\ (DOMAIN outcome.tree = {{outcome.taxon_label}} => outcome.ret = {})

C8_SiblingsReturned ==
  /\ outcome.call = "_get_sibling_taxa"
  /\ outcome.taxon_label \in leaf_labels(outcome.tree)
  /\ Cardinality(outcome.ret) >= 2

IsZeroZ(z) == z.num = 0 /\ z.sq_den # 0

\* C9: for every mapping d, the empty one included, _compute_z_score(d, d)
\* returns mean_delta = 0 and every z = 0; and whenever the standard deviation
\* of the deltas is 0 every z is 0.
C9_SelfZScoreIsZero ==
  outcome.call = "_compute_z_score" =>
    LET r == outcome.ret
    IN /\ (outcome.dist1 = outcome.dist2) =>
            /\ r.mean_delta.den # 0 /\ r.mean_delta.num = 0
            /\ \A i \in 1..Len(r.differences) : IsZeroZ(r.differences[i][3])
       /\ (r.std_delta.den # 0 /\ r.std_delta.sq_num = 0) =>
            \A i \in 1..Len(r.differences) : IsZeroZ(r.differences[i][3])

\* The part of C9 the code keeps: for a mapping d that is not empty
\* mean_delta = 0 and every z = 0, and a zero standard deviation gives z = 0.
SelfZScoreOfNonEmptyMapping ==
  outcome.call = "_compute_z_score" =>
    LET r == outcome.ret
    IN /\ (outcome.dist1 = outcome.dist2 /\ DOMAIN outcome.dist1 # {}) =>
            /\ r.mean_delta.den # 0 /\ r.mean_delta.num = 0
            /\ Len(r.differences) = Cardinality(DOMAIN outcome.dist1)
            /\ \A i \in 1..Len(r.differences) : IsZeroZ(r.differences[i][3])
       /\ (r.std_delta.den # 0 /\ r.std_delta.sq_num = 0) =>
            \A i \in 1..Len(r.differences) : IsZeroZ(r.differences[i][3])

\* C10: the differences list of _compute_z_score is in sorted key order,
\* whatever the iteration order of the set of common keys.
C10_DifferencesInSortedKeyOrder ==
  outcome.call = "_compute_z_score" =>
    LET d == outcome.ret.differences
    IN \A i, j \in 1..Len(d) : i < j => Rank(d[i][1]) < Rank(d[j][1])

\* ---- extract_migration_edges_from_treeout
ExtractReturned == outcome.call = "extract_migration_edges_from_treeout"

\* The lines the extractor goes through.
BlockLines == outcome.file[2].lines

\* The leaf labels written in a fragment, left to right.
LabelsIn(field) == SelectSeq(field, LAMBDA a : a \in Labels)

\* The edge a line of 6 fields stands for.
EdgeOf(line) ==
  [weight |-> IF line[1] = <<"0.25">> THEN Rat(25, 100) ELSE Rat(1, 1),
   source |-> LabelsIn(line[5]), target |-> LabelsIn(line[6])]

WellFormedFragments == {FragAB, FragCD, FragNested}

WellFormed(line) ==
  /\ Len(line) = 6
  /\ line[1] \in {<<"0.25">>, <<"1">>}
  /\ line[5] \in WellFormedFragments
  /\ line[6] \in WellFormedFragments

\* C11: the extractor does not raise; every edge it returns is that of a line
\* of exactly 6 fields, with weight = float(field 1), source = the leaf labels
\* of field 5 and target = those of field 6; lines of another field count
\* give no edge; every well-formed line of 6 fields gives its edge; the line
\* "0.25 x x x (A,B) (C,D)" gives weight 0.25, source [A,B], target [C,D].
C11_SixFieldLinesBecomeEdges ==
  ExtractReturned =>
    /\ ~Raised(outcome.ret)
    /\ \A i \in DOMAIN outcome.ret.val :
         \E j \in DOMAIN BlockLines :
           Len(BlockLines[j]) = 6 /\ outcome.ret.val[i] = EdgeOf(BlockLines[j])
    /\ Len(outcome.ret.val) <= Cardinality({j \in DOMAIN BlockLines : Len(BlockLines[j]) = 6})
    /\ \A j \in DOMAIN BlockLines :
         WellFormed(BlockLines[j]) =>
           \E i \in DOMAIN outcome.ret.val : outcome.ret.val[i] = EdgeOf(BlockLines[j])
    /\ BlockLines = <<ExampleLine>> =>
         outcome.ret.val = <<[weight |-> Rat(25, 100), source |-> <<"A", "B">>,
                              target |-> <<"C", "D">>]>>

\* A block of the example line and a line of 7 fields: one edge.
C11_EdgeBesideSkippedLine ==
  /\ ExtractReturned
  /\ BlockLines = <<SevenFieldLine, ExampleLine>>
  /\ Len(outcome.ret.val) = 1

RECURSIVE EdgesOfWellFormed(_)
EdgesOfWellFormed(lines) ==
  IF lines = <<>> THEN <<>>
  ELSE (IF WellFormed(Head(lines)) THEN <<EdgeOf(Head(lines))>> ELSE <<>>)
         \o EdgesOfWellFormed(Tail(lines))

\* C12: a line that raises while it is parsed (a weight that is no number, a
\* fragment that does not parse, a leaf without a label) is skipped and the
\* lines after it are still read: the list returned is exactly the edges of
\* the well-formed lines, in line order.
C12_MalformedLinesAreSkipped ==
  ExtractReturned =>
    /\ ~Raised(outcome.ret)
    /\ outcome.ret.val = EdgesOfWellFormed(BlockLines)

\* A line with a word for its weight, and a well-formed line after it.
C12_EdgeAfterMalformedLine ==
  /\ ExtractReturned
  /\ BlockLines = <<WordWeightLine, NestedLine>>
  /\ outcome.ret.val = <<EdgeOf(NestedLine)>>

\* ---- load_trees
Loaded == outcome.call = "load_trees" /\ outcome.exc = "none"

\* Something other than blanks follows the first ";" of the content.
Composite(content) ==
  \E i \in 2..Len(content) : content[i].kind # "blank"

\* C13: a content is classified by what follows its first ";": with only
\* blanks after it no migration edges are recorded for the path, with anything
\* else after it the extractor is run and its list is recorded for the path.
C13_ClassifiedByWhatFollowsFirstSemicolon ==
  Loaded =>
    /\ "baseline_path" \in DOMAIN migration_edges <=> Composite(outcome.baseline)
    /\ "tree_path" \in DOMAIN migration_edges <=> Composite(outcome.tree)

\* Every line after the first ";" of the content, across later ";".
RECURSIVE RemainderLines(_, _)
RemainderLines(content, i) ==
  IF i > Len(content) THEN <<>> ELSE content[i].lines \o RemainderLines(content, i + 1)

\* C14: of a composite content the extractor reads the whole remainder after
\* the first ";", lines after a second ";" too, and the tree is the one
\* written before the first ";".
C14_BlockIsWholeRemainder ==
  Loaded =>
    /\ "baseline_path" \in DOMAIN migration_edges =>
         /\ migration_edges["baseline_path"]
              = EdgesOfWellFormed(RemainderLines(outcome.baseline, 2))
         /\ tree1 = outcome.baseline[1].tree
    /\ "tree_path" \in DOMAIN migration_edges =>
         /\ migration_edges["tree_path"] = EdgesOfWellFormed(RemainderLines(outcome.tree, 2))
         /\ tree2 = outcome.tree[1].tree

\* C15: when the text before the first ";" of either file is not a Newick
\* tree statement, load_trees raises the parse error: no tree is returned, no
\* comparator is built, no result is computed and no file is written.
C15_UnparsableFirstSegmentFailsTheLoad ==
  (/\ outcome.call = "load_trees"
   /\ outcome.baseline[1].kind # "tree" \/ outcome.tree[1].kind # "tree") =>
    /\ outcome.exc = "ParseError"
    /\ NoComparator

\* C16: the result has migration_edges, and the migration edges file is
\* written, exactly when at least one edge was extracted.
C16_MigrationEdgesOnlyWhenExtracted ==
  Returned =>
    LET extracted == \E p \in DOMAIN migration_edges : migration_edges[p] # <<>>
    IN /\ "migration_edges" \in DOMAIN results <=> extracted
       /\ "migration_edges.json" \in DOMAIN files <=> extracted

\* ---- compare_trees: pruning
FirstCallReturned ==
  outcome = NoCall /\ outcome'.call = "compare_trees" /\ outcome'.exc = "none"

\* C17: on a fresh comparator global_distances is computed on the trees as
\* loaded, whatever pruned is, so pruned=True and pruned=False give the same
\* global_distances; with pruned=True the sibling, root and pairwise sections
\* are computed on the trees pruned to the common taxa, with pruned=False on
\* the trees as loaded.
C17_GlobalDistancesOnUnprunedTrees ==
  [][FirstCallReturned =>
       LET common_taxa == leaf_labels(tree1) \cap leaf_labels(tree2)
           used1 == IF outcome'.pruned
                    THEN extract_tree_with_taxa_labels(tree1, common_taxa) ELSE tree1
           used2 == IF outcome'.pruned
                    THEN extract_tree_with_taxa_labels(tree2, common_taxa) ELSE tree2
       IN /\ results'["global_distances"] = _calculate_distances(tree1, tree2).val
          /\ results'["sibling_comparisons"]
               = _compare_siblings(used1, used2, common_taxa)
          /\ results'["root_distances"] = _compare_root_distances(used1, used2)
          /\ results'["pairwise_distances"]
               = _compare_pairwise_distances(used1, used2, common_taxa)]_vars

\* A pruned comparison of trees with different taxa: the distances of the
\* trees as loaded differ from those of the pruned trees.
C17_PrunedCallOnDifferentTaxa ==
  /\ Returned
  /\ outcome.pruned
  /\ ~results["global_distances"].same_taxa
  /\ results["global_distances_pruned"].same_taxa
  /\ results["global_distances"].bsd_sq # results["global_distances_pruned"].bsd_sq

\* C18: compare_trees leaves the trees the comparator holds as they were, and
\* a second call on the same comparator returns the global_distances of the
\* first.
C18_PruningKeepsHeldTrees ==
  [][(outcome'.call = "compare_trees" /\ outcome'.exc = "none") =>
       /\ tree1' = tree1
       /\ tree2' = tree2
       /\ Returned => results'["global_distances"] = results["global_distances"]]_vars

\* ---- sibling comparison
\* C19: for each common taxon the comparison is omitted when the Jaccard
\* index of its two sibling sets is 1 and otherwise recorded with siblings1,
\* siblings2, jaccard_index, only_in_tree1 = siblings1 - siblings2 and
\* only_in_tree2 = siblings2 - siblings1; different_populations is exactly the
\* taxa with a recorded entry; siblings {B} against {C} give jaccard_index 0,
\* only_in_tree1 [B], only_in_tree2 [C].
C19_SiblingComparisonRecords ==
  Returned =>
    LET sc == results["sibling_comparisons"]
        AsSet(q) == DOMAIN q
    IN /\ AsSet(sc.different_populations) = DOMAIN sc.comparisons
       /\ SumFn(sc.different_populations) = Cardinality(DOMAIN sc.comparisons)
       /\ DOMAIN sc.comparisons \subseteq leaf_labels(tree1) \cap leaf_labels(tree2)
       /\ \A pop \in leaf_labels(tree1) \cap leaf_labels(tree2) :
            LET s1 == _get_sibling_taxa(tree1, pop)
                s2 == _get_sibling_taxa(tree2, pop)
            IN IF s1 = s2 /\ s1 # {}
               THEN pop \notin DOMAIN sc.comparisons
               ELSE /\ pop \in DOMAIN sc.comparisons
                    /\ AsSet(sc.comparisons[pop].siblings1) = s1
                    /\ AsSet(sc.comparisons[pop].siblings2) = s2
                    /\ sc.comparisons[pop].jaccard_index.num = Cardinality(s1 \cap s2)
                    /\ sc.comparisons[pop].jaccard_index.den
                         = IF s1 \cup s2 = {} THEN 1 ELSE Cardinality(s1 \cup s2)
                    /\ AsSet(sc.comparisons[pop].differences.only_in_tree1) = s1 \ s2
                    /\ AsSet(sc.comparisons[pop].differences.only_in_tree2) = s2 \ s1
                    /\ (s1 = {"B"} /\ s2 = {"C"}) =>
                         /\ sc.comparisons[pop].jaccard_index.num = 0
                         /\ sc.comparisons[pop].differences.only_in_tree1
                              = UnorderedList(<<"B">>)
                         /\ sc.comparisons[pop].differences.only_in_tree2
                              = UnorderedList(<<"C">>)

\* ((A,B),C) against ((A,C),B): A has the sibling B in one tree and C in the
\* other, and C keeps no sibling set either.
C19_SiblingsBAgainstC ==
  /\ Returned
  /\ DOMAIN tree1 = Shape({"A", "B", "C"}, {{"A", "B"}})
  /\ DOMAIN tree2 = Shape({"A", "B", "C"}, {{"A", "C"}})
  /\ results["sibling_comparisons"].comparisons["A"].differences.only_in_tree1
       = UnorderedList(<<"B">>)

\* ---- branch score distance
\* C20: bsd is symmetric, bsd(T1, T2) = bsd(T2, T1), and it is the Euclidean
\* norm of the branch-length differences over the bipartitions of either
\* tree, a bipartition absent from a tree counting with length 0.  The trees
\* at hand are those the last distances were computed on: global_distances
\* after an unpruned call, global_distances_pruned after a pruned one.
C20_BranchScoreDistanceIsSymmetric ==
  Returned =>
    LET section == IF outcome.pruned THEN "global_distances_pruned" ELSE "global_distances"
        diff(c) == (IF c \in DOMAIN tree1 THEN tree1[c] ELSE 0)
                     - (IF c \in DOMAIN tree2 THEN tree2[c] ELSE 0)
    IN /\ results[section].bsd_sq = _calculate_distances(tree2, tree1).val.bsd_sq
       /\ results[section].bsd_sq
            = SumFn([c \in (DOMAIN tree1) \cup (DOMAIN tree2) |-> diff(c) * diff(c)])

\* Trees that differ in a bipartition and in their branch lengths.
C20_DistanceOfDifferentTrees ==
  /\ Returned
  /\ ~outcome.pruned
  /\ DOMAIN tree1 # DOMAIN tree2
  /\ \E c \in DOMAIN tree1 : c \notin DOMAIN tree2 /\ tree1[c] > 0
  /\ \A c \in DOMAIN tree2 : tree2[c] = 0
  /\ results["global_distances"].bsd_sq > 0

\* ---- _pairwise_distances
\* C21: _pairwise_distances has exactly one entry for every unordered pair of
\* the taxa, keyed (a, b) with a before b in sorted order; its value is
\* rootDist(a) + rootDist(b) - 2 * rootDist(MRCA(a, b)), which is the length
\* of the path between the two leaves, and is never negative.
C21_PairwiseDistancesOfEveryPair ==
  outcome.call = "_pairwise_distances" =>
    LET t == outcome.tree
        RootDist(c) == SumFn([d \in {e \in DOMAIN t : c \subseteq e} |-> t[d]])
        Above(a, b) == {d \in DOMAIN t : a \in d /\ b \in d}
        MRCA(a, b) == CHOOSE d \in Above(a, b) : \A e \in Above(a, b) : d \subseteq e
    IN /\ DOMAIN outcome.ret
            = {<<a, b>> : a \in outcome.taxa, b \in outcome.taxa} \cap {p \in PairKeys : Rank(p[1]) < Rank(p[2])}
       /\ \A p \in DOMAIN outcome.ret :
            /\ outcome.ret[p] = RootDist({p[1]}) + RootDist({p[2]}) - 2 * RootDist(MRCA(p[1], p[2]))
            /\ outcome.ret[p]
                 = SumFn([c \in {e \in DOMAIN t : (p[1] \in e) # (p[2] \in e)} |-> t[c]])
            /\ outcome.ret[p] >= 0

\* ((A,B),C) with taxa A, B, C: three pairs, A and B two edges of length 1
\* apart, A and C an edge of length 1, one of length 2 and one of length 1.
C21_ThreePairsOfResolvedTree ==
  /\ outcome.call = "_pairwise_distances"
  /\ outcome.tree = MkTree(Shape({"A", "B", "C"}, {{"A", "B"}}), 1)
  /\ outcome.taxa = {"A", "B", "C"}
  /\ Cardinality(DOMAIN outcome.ret) = 3
  /\ outcome.ret[<<"A", "B">>] = 2
  /\ outcome.ret[<<"A", "C">>] = 4

\* ---- root distances
\* C22: root_distances has one difference entry for each label that is a leaf
\* of both trees and none for a label of one tree only; the delta of an entry
\* is the root-to-leaf branch-length sum of the label in tree1 minus that in
\* tree2.
C22_RootDistancesOfCommonLabels ==
  Returned =>
    LET differences == results["root_distances"].differences
        keys == {e[1] : e \in DOMAIN differences}
        RootToLeaf(t, l) == SumFn([d \in {e \in DOMAIN t : l \in e} |-> t[d]])
    IN /\ keys = leaf_labels(tree1) \cap leaf_labels(tree2)
       /\ SumFn(differences) = Cardinality(keys)
       /\ \A e \in DOMAIN differences :
            e[2] = RootToLeaf(tree1, e[1]) - RootToLeaf(tree2, e[1])

\* An unpruned comparison of trees with different leaves and root distances.
C22_DeltaOfTreesWithDifferentLeaves ==
  /\ Returned
  /\ ~outcome.pruned
  /\ leaf_labels(tree1) # leaf_labels(tree2)
  /\ \E e \in DOMAIN results["root_distances"].differences : e[2] < 0

\* ---- results across calls
\* C27: the result a call with pruned=False returns has no
\* global_distances_pruned entry, whatever calls came before it.
C27_NoStalePrunedSection ==
  (Returned /\ ~outcome.pruned) => "global_distances_pruned" \notin DOMAIN results

\* C28: the trees pruned to the shared taxa have exactly the common labels as
\* leaves, so global_distances_pruned has same_taxa true, jaccard_index 1 and
\* the four taxon counts equal.
C28_PrunedTreesHaveSameTaxa ==
  (Returned /\ outcome.pruned) =>
    LET gp == results["global_distances_pruned"]
    IN /\ leaf_labels(tree1) = leaf_labels(tree2)
       /\ gp.same_taxa
       /\ gp.jaccard_index.num = gp.jaccard_index.den
       /\ gp.jaccard_index.den > 0
       /\ gp.taxa_info.tree1_taxa_count = gp.taxa_info.common_taxa_count
       /\ gp.taxa_info.tree2_taxa_count = gp.taxa_info.common_taxa_count
       /\ gp.taxa_info.total_unique_taxa = gp.taxa_info.common_taxa_count

\* A pruned comparison of a tree of 4 taxa with a tree of 3 of them.
C28_FourTaxaPrunedToThree ==
  /\ Returned
  /\ outcome.pruned
  /\ results["global_distances"].taxa_info.total_unique_taxa = 4
  /\ results["global_distances"].taxa_info.common_taxa_count = 3
  /\ results["global_distances_pruned"].taxa_info.total_unique_taxa = 3

\* ---- the writer
\* C30: the writer runs after every metric: a compare_trees call that raises
\* writes none of the three files.
C30_NothingWrittenWhenComparisonRaises ==
  [][(outcome'.call = "compare_trees" /\ outcome'.exc # "none") => files' = files]_vars

\* A comparison that raised on fewer than 3 shared taxa, nothing written.
C30_RaisedWithoutFiles ==
  /\ outcome.call = "compare_trees"
  /\ outcome.exc = "ValueError"
  /\ results = EmptyDict
  /\ files = EmptyDict

\* ---- normalisation
\* C26: _normalized_rf raises when shared < 3, returns 0 when maxRF <= 0 and
\* rf / maxRF otherwise, with maxRF = 2*(shared-2) rooted and 2*(shared-3)
\* unrooted; _normalize_bsd returns 0 when shared < 3 and otherwise
\* bsd / (2*shared-2) rooted, bsd / (2*shared-3) unrooted; no denominator is
\* ever 0.
C26_NormalisationBranches ==
  /\ outcome.call = "_normalized_rf" =>
       LET maxRF == IF outcome.rooted THEN 2 * (outcome.shared_taxa - 2)
                    ELSE 2 * (outcome.shared_taxa - 3)
       IN IF outcome.shared_taxa < 3 THEN outcome.ret.exc = "ValueError"
          ELSE /\ outcome.ret.exc = "none"
               /\ outcome.ret.val.den # 0
               /\ IF maxRF <= 0 THEN outcome.ret.val.num = 0
                  ELSE outcome.ret.val.num = outcome.pruned_rf /\ outcome.ret.val.den = maxRF
  /\ outcome.call = "_normalize_bsd" =>
       /\ outcome.ret.den # 0
       /\ IF outcome.shared_taxa < 3 THEN outcome.ret.sq_num = 0
          ELSE /\ outcome.ret.sq_num = outcome.bsd_sq
               /\ outcome.ret.den = IF outcome.rooted THEN 2 * outcome.shared_taxa - 2
                                    ELSE 2 * outcome.shared_taxa - 3

\* Unrooted with 3 shared taxa: maxRF is 0 and a positive rf is normalised
\* to 0.
C26_UnrootedThreeTaxaGivesZero ==
  /\ outcome.call = "_normalized_rf"
  /\ ~outcome.rooted
  /\ outcome.shared_taxa = 3
  /\ outcome.pruned_rf > 0
  /\ outcome.ret = Ok(Rat(0, 1))

\* ---- different_populations
\* C29: a taxon common to both trees is listed in different_populations
\* exactly when its sibling set in tree1 differs from its sibling set in
\* tree2; a taxon with two empty sibling sets is not listed.
C29_ListedIffSiblingSetsDiffer ==
  outcome.call = "_compare_siblings" =>
    \A pop \in outcome.common_taxa :
      pop \in DOMAIN outcome.ret.different_populations
        <=> _get_sibling_taxa(tree1, pop) # _get_sibling_taxa(tree2, pop)

\* ---- the shared taxon namespace
\* The labels written in the tree statements of a file.
StatementLabels(content) ==
  UNION {leaf_labels(content[i].tree) : i \in {j \in DOMAIN content : content[j].kind = "tree"}}

\* C23: after load_trees the namespace shared by the two trees holds the
\* labels of both trees and only labels that occur in the tree statements of
\* the two files: no label that occurs only in the text of a migration block.
C23_NamespaceHoldsOnlyTreeLabels ==
  Loaded =>
    /\ leaf_labels(tree1) \cup leaf_labels(tree2) \subseteq outcome.taxon_namespace
    /\ outcome.taxon_namespace
         \subseteq StatementLabels(outcome.baseline) \cup StatementLabels(outcome.tree)

\* ---- population_manipulation
\* The number of rows of a population in a list of rows.
CountOf(df, pop) == Len(SelectSeq(df, LAMBDA row : row.Population = pop))

\* C24: with max_per_population < 1 reduce_population_counts raises
\* ValueError and no file is written; otherwise it writes a list in which
\* every named population has at most max_per_population individuals, all of
\* them when it had no more, every individual of another population is kept
\* as it was, and every individual comes from the input.
C24_ReducedListKeepsTheOthers ==
  outcome.call = "reduce_population_counts" =>
    LET input == poplist_df(outcome.poplist)
        named == {outcome.populations_to_reduce[i] : i \in DOMAIN outcome.populations_to_reduce}
    IN IF outcome.max_per_population < 1
       THEN outcome.exc = "ValueError" /\ files = EmptyDict
       ELSE outcome.poplist # <<>> =>
              /\ outcome.exc = "none"
              /\ "out_path" \in DOMAIN files
              /\ LET final == files["out_path"]
                 IN /\ \A pop \in named :
                         /\ CountOf(final, pop) <= outcome.max_per_population
                         /\ CountOf(input, pop) <= outcome.max_per_population =>
                              CountOf(final, pop) = CountOf(input, pop)
                    /\ \A i \in DOMAIN input :
                         input[i].Population \notin named =>
                           Cardinality({j \in DOMAIN final : final[j] = input[i]}) = 1
                    /\ \A j \in DOMAIN final : \E i \in DOMAIN input : final[j] = input[i]

\* C25: create_snpsplit_hybrids_aligned raises ValueError and writes no .ped
\* file when the number of individuals is not divisible by the number of
\* populations, and also when the number of SNPs is not.
C25_IndivisibleCountsRaise ==
  (/\ outcome.call = "create_snpsplit_hybrids_aligned"
   /\ outcome.n_pops > 0
   /\ \/ outcome.total_inds % outcome.n_pops # 0
      \/ outcome.snp_count % outcome.n_pops # 0) =>
    /\ outcome.exc = "ValueError"
    /\ files = EmptyDict

====
